---- MODULE Spec2Model ----
(***************************************************************************)
(* Model of src/app.py: the get_rates cache-resolution routine (external   *)
(* Redis cache, in-process memory cache, upstream HTTP API) and the        *)
(* /api/rates handler that calls it.                                       *)
(*                                                                         *)
(* Python values are modelled as strings: None is "None", a rates mapping  *)
(* is one of the names in RatesValues, an updatedAt string is the          *)
(* isoformat of a clock reading.  Times are integers (seconds).            *)
(***************************************************************************)
EXTENDS Integers, Sequences, FiniteSets, TLC

VARIABLES startup, redis_client, redis_up, redis_store, memory_cache, now, call,
          last_good, page, threads, snapshots

vars == <<startup, redis_client, redis_up, redis_store, memory_cache, now, call,
          last_good, page, threads, snapshots>>

----------------------------------------------------------------------------
(* Bounds of the model *)

\* the clock advances in steps of TickStep seconds, MaxTicks times at most
MaxTicks == 4

TickStep == 225

\* the seconds over which concurrent requests are followed
MaxMoments == 2

MaxTime == MaxTicks * TickStep

----------------------------------------------------------------------------
(* Program constants *)

CACHE_EXPIRATION == 300

MEMORY_MAX_AGE == 600

HTTP_TOO_MANY_REQUESTS == 429

----------------------------------------------------------------------------
(* Python values *)

None == "None"

NoTimestamp == -1

EmptyDict == "{}"

\* the values the 'rates' field of a JSON body can take: null, an empty
\* mapping, a non-empty mapping of currency codes to rate records (R1, R2),
\* or a non-empty value of another shape (see Content)
RatesValues ==
    {None, EmptyDict, "R1", "R2", "R_no_eur", "R_no_value", "R_scalar", "R_text", "R_list"}

\* bool(v) for a rates value: None and {} are falsy
Truthy(v) == v \notin {None, EmptyDict}

\* datetime.isoformat()
isoformat(t) == ToString(t)

----------------------------------------------------------------------------
(* Exceptions: NoExc means the statement completed normally *)

NoExc == "NoExc"

\* isinstance(exc, cls) for the classes named in the except clauses
IsInstance(exc, cls) ==
    CASE cls = "Exception" -> exc # NoExc
      [] cls = "RedisError" -> exc \in {"redis.ConnectionError"}
      [] cls = "HTTPError" -> exc \in {"HTTPError"}
      [] cls \in {"KeyError", "TypeError"} -> exc = cls
      [] OTHER -> FALSE

Caught(exc, handlers) == \E i \in 1..Len(handlers) : IsInstance(exc, handlers[i])

----------------------------------------------------------------------------
(* JSON texts.  A text is a record: form "nil" (no string at all), "empty" *)
(* (the empty string), "garbage" (not JSON), "array" (JSON, not an         *)
(* object), or "object" with the set of keys present and their values.     *)
(* A JSON value is [j |-> "null" | "object" | "string", of |-> name].      *)

JNull == [j |-> "null", of |-> "null"]

Text(form, keys, r, u) == [form |-> form, keys |-> keys, rates |-> r, updatedAt |-> u]

NoText == Text("nil", {}, JNull, JNull)

\* json.dumps of one value gone wrong: every falsy value is written as null
json_dumps_value_falsy_null(v) ==
    IF ~Truthy(v) THEN JNull
    ELSE IF v \in RatesValues THEN [j |-> "object", of |-> v]
    ELSE [j |-> "string", of |-> v]

\* json.dumps of one value: None -> null, dict -> object, str -> string
json_dumps_value(v) ==
    IF v = None THEN JNull
    ELSE IF v \in RatesValues THEN [j |-> "object", of |-> v]
    ELSE [j |-> "string", of |-> v]

\* json.loads of one value
json_loads_value(jv) == IF jv.j = "null" THEN None ELSE jv.of

\* json.dumps gone wrong: only the rates are serialized
json_dumps_rates_only(cache_data) ==
    Text("object", {"rates"}, json_dumps_value(cache_data.rates), JNull)

\* json.dumps(cache_data) for cache_data = {'rates': ..., 'updatedAt': ...}
json_dumps(cache_data) ==
    Text("object", {"rates", "updatedAt"},
         json_dumps_value(cache_data.rates),
         json_dumps_value(cache_data.updatedAt))

\* json.loads(text) / response.json(): the parsed value or the exception
json_loads(text) ==
    IF text.form \in {"empty", "garbage", "nil"}
    THEN [exc |-> "JSONDecodeError", type |-> "none", keys |-> {},
          rates |-> None, updatedAt |-> None]
    ELSE IF text.form = "array"
    THEN [exc |-> NoExc, type |-> "list", keys |-> {},
          rates |-> None, updatedAt |-> None]
    ELSE [exc |-> NoExc, type |-> "dict", keys |-> text.keys,
          rates |-> json_loads_value(text.rates),
          updatedAt |-> json_loads_value(text.updatedAt)]

\* data[key]
getitem(data, key) ==
    IF data.type # "dict" THEN [exc |-> "TypeError", val |-> None]
    ELSE IF key \notin data.keys THEN [exc |-> "KeyError", val |-> None]
    ELSE [exc |-> NoExc, val |-> IF key = "rates" THEN data.rates ELSE data.updatedAt]

\* bool(cached_data): None and the empty string are falsy
TruthyText(text) == text.form \notin {"nil", "empty"}

----------------------------------------------------------------------------
(* The external cache: one key, a value and its expiration time *)

NoEntry == [data |-> NoText, expires |-> 0]

\* redis_client.get(CACHE_KEY)
redis_get(up, store, t) ==
    IF ~up THEN [exc |-> "redis.ConnectionError", val |-> NoText]
    ELSE IF t >= store.expires THEN [exc |-> NoExc, val |-> NoText]
    ELSE [exc |-> NoExc, val |-> store.data]

\* redis_client.setex(CACHE_KEY, CACHE_EXPIRATION, value)
redis_setex(up, store, t, ttl, value) ==
    IF ~up THEN [exc |-> "redis.ConnectionError", store |-> store]
    ELSE [exc |-> NoExc, store |-> [data |-> value, expires |-> t + ttl]]

----------------------------------------------------------------------------
(* get_rates, tier 1: the external cache (lines 74-91) *)

\* the first try block without its early return on a hit
Tier1Try_no_return(up, store, t) ==
    [exc |-> redis_get(up, store, t).exc, returned |-> FALSE,
     rates |-> None, updated_at |-> None]

\* the body of the first try block: the locals it leaves behind, whether it
\* reached 'return rates, updated_at', and the exception that ended it
Tier1Try(up, store, t) ==
    LET g == redis_get(up, store, t)
        data == json_loads(g.val)
        r == getitem(data, "rates")
        u == getitem(data, "updatedAt")
        out(e, ret, rv, uv) == [exc |-> e, returned |-> ret, rates |-> rv, updated_at |-> uv]
    IN  IF g.exc # NoExc THEN out(g.exc, FALSE, None, None)
        ELSE IF ~TruthyText(g.val) THEN out(NoExc, FALSE, None, None)
        ELSE IF data.exc # NoExc THEN out(data.exc, FALSE, None, None)
        ELSE IF r.exc # NoExc THEN out(r.exc, FALSE, None, None)
        ELSE IF u.exc # NoExc THEN out(u.exc, FALSE, r.val, None)
        ELSE out(NoExc, TRUE, r.val, u.val)

\* the handlers of tier 1 without the catch-all clause
Tier1Handlers_redis_only == <<"RedisError">>

\* except redis.RedisError / except Exception
Tier1Handlers == <<"RedisError", "Exception">>

\* tier 1 reading the cache whether or not a client was kept at startup
Tier1_always(client, up, store, t) ==
    LET try == Tier1Try(up, store, t)
    IN  [got |-> TRUE, exc |-> try.exc, returned |-> try.returned,
         rates |-> try.rates, updated_at |-> try.updated_at]

\* line 74: the try block runs only when redis_client is set; got tells
\* whether redis_client.get was called
Tier1(client, up, store, t) ==
    IF ~client
    THEN [got |-> FALSE, exc |-> NoExc, returned |-> FALSE,
          rates |-> None, updated_at |-> None]
    ELSE LET try == Tier1Try(up, store, t)
         IN  [got |-> TRUE, exc |-> try.exc, returned |-> try.returned,
              rates |-> try.rates, updated_at |-> try.updated_at]

----------------------------------------------------------------------------
(* get_rates, tier 2: the memory cache (lines 93-98) *)

\* the freshness test with the external cache's expiration as its window
MemoryFresh_short(mem, t) ==
    /\ Truthy(mem.rates)
    /\ mem.timestamp # NoTimestamp
    /\ t - mem.timestamp < CACHE_EXPIRATION

\* the freshness test with a 15-minute window
MemoryFresh_long(mem, t) ==
    /\ Truthy(mem.rates)
    /\ mem.timestamp # NoTimestamp
    /\ t - mem.timestamp < MEMORY_MAX_AGE + CACHE_EXPIRATION

MemoryFresh(mem, t) ==
    /\ Truthy(mem.rates)
    /\ mem.timestamp # NoTimestamp
    /\ t - mem.timestamp < MEMORY_MAX_AGE

\* the memory cache update without its updatedAt assignment
MemoryEntry_no_updated(r, u, t) == [rates |-> r, updatedAt |-> None, timestamp |-> t]

MemoryEntry(r, u, t) == [rates |-> r, updatedAt |-> u, timestamp |-> t]

----------------------------------------------------------------------------
(* get_rates, tier 3: the upstream API (lines 100-146) *)

\* An upstream outcome: requests.get raises (kind is the exception), or
\* returns a response with a status code and a body.
Response(kind, status, body) == [kind |-> kind, status |-> status, body |-> body]

\* the setex without its own try/except
SetexHandlers_none == <<>>

\* except Exception at line 125, around the setex
SetexHandlers == <<"Exception">>

\* a fetch that raises and empties the memory cache
Tier3Raised_clears(e, store, mem, t) ==
    [exc |-> e, assigned |-> FALSE, rates |-> None, updated_at |-> None,
     store |-> store, mem |-> MemoryEntry(None, None, NoTimestamp),
     set |-> FALSE, wrote |-> FALSE]

\* a fetch that raises and refreshes the memory cache's timestamp
Tier3Raised_touch(e, store, mem, t) ==
    [exc |-> e, assigned |-> FALSE, rates |-> None, updated_at |-> None,
     store |-> store, mem |-> [mem EXCEPT !.timestamp = t],
     set |-> FALSE, wrote |-> FALSE]

\* lines 103-107 raising exception e at time t: no local is assigned and
\* both caches are left as they were
Tier3Raised(e, store, mem, t) ==
    [exc |-> e, assigned |-> FALSE, rates |-> None, updated_at |-> None,
     store |-> store, mem |-> mem, set |-> FALSE, wrote |-> FALSE]

\* the body of the try block at lines 101-131: the exception that ended it,
\* the locals it assigned, the caches as it left them, and whether setex
\* was called (set) and succeeded (wrote)
Tier3Try(client, up, store, mem, t, resp) ==
    LET api_data == json_loads(resp.body)
        r == getitem(api_data, "rates")
        updated_at == isoformat(t)
        cache_data == [rates |-> r.val, updatedAt |-> updated_at]
        w == redis_setex(up, store, t, CACHE_EXPIRATION, json_dumps(cache_data))
        fail(e) == Tier3Raised(e, store, mem, t)
    IN  IF resp.kind # "response" THEN fail(resp.kind)
        ELSE IF resp.status >= 400 THEN fail("HTTPError")
        ELSE IF api_data.exc # NoExc THEN fail(api_data.exc)
        ELSE IF r.exc # NoExc THEN fail(r.exc)
        ELSE IF client /\ w.exc # NoExc /\ ~Caught(w.exc, SetexHandlers)
        \* a setex failure that the inner handler lets through
        THEN [exc |-> w.exc, assigned |-> TRUE, rates |-> r.val, updated_at |-> updated_at,
              store |-> store, mem |-> mem, set |-> TRUE, wrote |-> FALSE]
        ELSE [exc |-> NoExc, assigned |-> TRUE, rates |-> r.val, updated_at |-> updated_at,
              store |-> IF client THEN w.store ELSE store,
              mem |-> MemoryEntry(r.val, updated_at, t),
              set |-> client,
              wrote |-> client /\ w.exc = NoExc]

\* except requests.exceptions.HTTPError / except Exception
Tier3Handlers == <<"HTTPError", "Exception">>

\* which except clause handles exc: the first that matches, 0 if none
HandlerOf(exc, handlers) ==
    IF Caught(exc, handlers)
    THEN CHOOSE i \in 1..Len(handlers) :
            /\ IsInstance(exc, handlers[i])
            /\ \A k \in 1..(i-1) : ~IsInstance(exc, handlers[k])
    ELSE 0

\* the HTTPError handler without the fallback on 429
HTTPErrorFallsBack_never(status, mem) == FALSE

\* lines 133-139: True when the handler returns the memory cache
HTTPErrorFallsBack(status, mem) ==
    status = HTTP_TOO_MANY_REQUESTS /\ Truthy(mem.rates)

\* lines 140-144
ExceptionFallsBack(mem) == Truthy(mem.rates)

----------------------------------------------------------------------------
(* get_rates as a whole *)

\* ops: the operations get_rates performed on the external cache
Outcome(esc, r, u, mem, store, called, wrote, src, ops) ==
    [escaped |-> esc, rates |-> r, updated_at |-> u, memory_cache |-> mem,
     redis_store |-> store, upstream_called |-> called, wrote |-> wrote,
     source |-> src, ops |-> ops]

get_rates(client, up, store, mem, t, resp) ==
    LET t1 == Tier1(client, up, store, t)
        t3 == Tier3Try(client, up, store, mem, t, resp)
        h3 == IF t3.exc = NoExc THEN 0 ELSE Tier3Handlers[HandlerOf(t3.exc, Tier3Handlers)]
        get == IF t1.got THEN {"get"} ELSE {}
        ops == get \cup (IF t3.set THEN {"setex"} ELSE {})
        \* the locals at line 146: assigned by tier 3, or as tier 1 left them
        rates == IF t3.assigned THEN t3.rates ELSE t1.rates
        updated_at == IF t3.assigned THEN t3.updated_at ELSE t1.updated_at
    IN  IF t1.exc # NoExc /\ ~Caught(t1.exc, Tier1Handlers)
        THEN Outcome(t1.exc, None, None, mem, store, FALSE, FALSE, "raised", get)
        ELSE IF t1.returned
        THEN Outcome(NoExc, t1.rates, t1.updated_at,
                     MemoryEntry(t1.rates, t1.updated_at, t), store, FALSE, FALSE,
                     "redis", get)
        ELSE IF MemoryFresh(mem, t)
        THEN Outcome(NoExc, mem.rates, mem.updatedAt, mem, store, FALSE, FALSE,
                     "memory", get)
        ELSE IF t3.exc = NoExc
        THEN Outcome(NoExc, t3.rates, t3.updated_at, t3.mem, t3.store, TRUE, t3.wrote,
                     "upstream", ops)
        ELSE IF ~Caught(t3.exc, Tier3Handlers)
        THEN Outcome(t3.exc, None, None, t3.mem, t3.store, TRUE, FALSE, "raised", ops)
        ELSE IF \/ h3 = "HTTPError" /\ HTTPErrorFallsBack(resp.status, t3.mem)
                \/ h3 = "Exception" /\ ExceptionFallsBack(t3.mem)
        THEN Outcome(NoExc, t3.mem.rates, t3.mem.updatedAt, t3.mem, t3.store, TRUE, FALSE,
                     "stale", ops)
        ELSE Outcome(NoExc, rates, updated_at, t3.mem, t3.store, TRUE, FALSE, "locals", ops)

----------------------------------------------------------------------------
(* The environment: upstream outcomes and what the shared cache can hold *)

Garbage == Text("garbage", {}, JNull, JNull)

\* JSON values as they appear on the wire
JObject(name) == [j |-> "object", of |-> name]

JString(str) == [j |-> "string", of |-> str]

RatesJson == {JNull, JObject(EmptyDict), JObject("R1")}

Bodies ==
    {Text("object", {"rates"}, rj, JNull) : rj \in RatesJson}
    \cup {Garbage, Text("object", {}, JNull, JNull)}

Responses ==
    {Response("ConnectionError", 0, NoText),
     Response("response", 429, Garbage), Response("response", 500, Garbage)}
    \cup {Response("response", 200, b) : b \in Bodies}

\* what another writer can leave under the key at time t: an entry as this
\* program writes it, or something this program cannot read
ForeignTexts(t) ==
    {Text("object", {"rates", "updatedAt"}, rj, JString(isoformat(t))) :
        rj \in {JNull, JObject("R2")}}
    \cup {Garbage,
          Text("object", {"rates"}, JObject("R2"), JNull),
          Text("object", {"updatedAt"}, JNull, JString(isoformat(t)))}

\* how the read of tier 1 ends, told from the state of the cache alone
ReadClass(client, up, store, t) ==
    IF ~client THEN "unavailable"
    ELSE IF ~up THEN "error"
    ELSE IF t >= store.expires \/ store.data.form \in {"nil", "empty"} THEN "miss"
    ELSE IF store.data.form = "object" /\ {"rates", "updatedAt"} \subseteq store.data.keys
    THEN "hit"
    ELSE "unreadable"

----------------------------------------------------------------------------
(* State machine.  call is the observation of the get_rates call that has  *)
(* just returned: its inputs, its outcome, and what the call before it     *)
(* returned when only the clock moved between the two.  A step of the      *)
(* environment clears it; a tick keeps the outcome for the next call.      *)
(* last_good is the snapshot of the latest external-cache hit or upstream  *)
(* fetch.                                                                  *)

\* what a non-empty, non-null rates value holds.  A Python value is a record
\* with its type and, for a dict, its items.
PyNum(n) == [type |-> "num", items |-> <<>>, n |-> n]

PyStr == [type |-> "str", items |-> <<>>, n |-> 0]

PyList == [type |-> "list", items |-> <<>>, n |-> 0]

PyNone == [type |-> "None", items |-> <<>>, n |-> 0]

PyDict(items) == [type |-> "dict", items |-> items, n |-> 0]

Rate(n) == PyDict([value |-> PyNum(n)])

Content(name) ==
    CASE name = "R1" ->
           PyDict([brl |-> Rate(523000), usd |-> Rate(97000), eur |-> Rate(89000)])
      [] name = "R2" ->
           PyDict([brl |-> Rate(500000), usd |-> Rate(90000), eur |-> Rate(80000),
                   gbp |-> Rate(70000)])
      [] name = "R_no_eur" -> PyDict([brl |-> Rate(523000), usd |-> Rate(97000)])
      [] name = "R_no_value" ->
           PyDict([brl |-> Rate(523000), usd |-> PyDict([name |-> PyStr]),
                   eur |-> Rate(89000)])
      [] name = "R_scalar" ->
           PyDict([brl |-> Rate(523000), usd |-> Rate(97000), eur |-> PyNum(89000)])
      [] name = "R_text" ->
           PyDict([brl |-> PyDict([value |-> PyStr]), usd |-> Rate(97000),
                   eur |-> Rate(89000)])
      [] name = "R_list" -> PyList
      [] name = EmptyDict -> PyDict(<<>>)
      [] OTHER -> PyNone

\* v[key] for a string key
subscript(v, key) ==
    IF v.type # "dict" THEN [exc |-> "TypeError", val |-> PyNone]
    ELSE IF key \notin DOMAIN v.items THEN [exc |-> "KeyError", val |-> PyNone]
    ELSE [exc |-> NoExc, val |-> v.items[key]]

\* rates[code]['value']
nested_value(rates, code) ==
    LET rec == subscript(rates, code)
    IN  IF rec.exc # NoExc THEN rec ELSE subscript(rec.val, "value")

NoPrices == [none |-> TRUE, brl |-> PyNone, usd |-> PyNone, eur |-> PyNone]

\* lines 156-160: building the prices dict, or the exception raised on the way
PricesTry(rates) ==
    LET brl == nested_value(rates, "brl")
        usd == nested_value(rates, "usd")
        eur == nested_value(rates, "eur")
    IN  IF brl.exc # NoExc THEN [exc |-> brl.exc, prices |-> NoPrices]
        ELSE IF usd.exc # NoExc THEN [exc |-> usd.exc, prices |-> NoPrices]
        ELSE IF eur.exc # NoExc THEN [exc |-> eur.exc, prices |-> NoPrices]
        ELSE [exc |-> NoExc,
              prices |-> [none |-> FALSE, brl |-> brl.val, usd |-> usd.val, eur |-> eur.val]]

\* the handlers of index without TypeError
IndexHandlers_key_only == <<"KeyError">>

\* except (KeyError, TypeError) at line 161
IndexHandlers == <<"KeyError", "TypeError">>

\* lines 151-164: what index passes to render_template for the pair that
\* get_rates returned (or the exception that ends the request)
IndexPage(out) ==
    LET try == PricesTry(Content(out.rates))
        esc == IF out.escaped # NoExc THEN out.escaped
               ELSE IF Truthy(out.rates) /\ try.exc # NoExc /\ ~Caught(try.exc, IndexHandlers)
               THEN try.exc
               ELSE NoExc
    IN  [done |-> TRUE,
         escaped |-> esc,
         status |-> IF esc = NoExc THEN 200 ELSE 500,
         prices |-> IF esc = NoExc /\ Truthy(out.rates) /\ try.exc = NoExc
                    THEN try.prices ELSE NoPrices,
         updated_at |-> IF esc = NoExc THEN out.updated_at ELSE None]

NoPage ==
    [done |-> FALSE, escaped |-> NoExc, status |-> 0, prices |-> NoPrices,
     updated_at |-> None]

\* the upstream bodies of the page scenarios: a 'rates' field of every shape
IndexRatesJson ==
    {JNull, JObject(EmptyDict), JObject("R1"), JObject("R_no_eur"),
     JObject("R_no_value"), JObject("R_scalar"), JObject("R_text"),
     [j |-> "array", of |-> "R_list"]}

IndexResponses ==
    {Response("response", 429, Garbage)}
    \cup {Response("response", 200, Text("object", {"rates"}, rj, JNull)) :
             rj \in IndexRatesJson}

\* the request threads of the server (Flask serves each request on its own
\* thread, and memory_cache is one module-level dict)
Threads == {"a", "b"}

\* a thread's position in get_rates (the line it executes next), its locals
\* rates, updated_at and the status of the HTTPError it caught, the pair it
\* returned, and what its last store into the memory cache wrote
NoStore == [rates |-> None, updatedAt |-> None, timestamp |-> NoTimestamp, complete |-> FALSE]

IdleThread ==
    [pc |-> "idle", rates |-> None, updated_at |-> None, status |-> 0,
     ret |-> [rates |-> None, updated_at |-> None], store |-> NoStore]

\* what a caller sees of an outcome: the return value and how it came about
Observed(out) ==
    [escaped |-> out.escaped, rates |-> out.rates, updated_at |-> out.updated_at,
     upstream_called |-> out.upstream_called, wrote |-> out.wrote,
     source |-> out.source, ops |-> out.ops]

NoCall ==
    [at |-> 0, read |-> "none", entry |-> NoText, stored |-> NoEntry,
     pre |-> MemoryEntry(None, None, NoTimestamp),
     resp |-> Response("none", 0, NoText),
     out |-> Observed(Outcome(NoExc, None, None, MemoryEntry(None, None, NoTimestamp),
                              NoEntry, FALSE, FALSE, "none", {})),
     prev |-> [source |-> "none", wrote |-> FALSE, at |-> 0,
               rates |-> None, updated_at |-> None]]

\* lines 15-18: REDIS_URL is set, or else REDIS_HOST is set, or neither is
Configs == {"url", "host", "none"}

\* lines 22-53 as they would be if no client were built without a
\* configuration
ClientTarget_none_skips(config) ==
    IF config = "url" THEN "REDIS_URL"
    ELSE IF config = "host" THEN "REDIS_HOST"
    ELSE None

\* lines 22-53: the server the client is built for
ClientTarget(config) ==
    IF config = "url" THEN "REDIS_URL"
    ELSE IF config = "host" THEN "REDIS_HOST"
    ELSE "localhost"

\* lines 21-59: redis_client is set iff a client was built and its ping
\* succeeded; up tells whether the server it is built for answers
StartupClient(config, up) == ClientTarget(config) # None /\ up

\* lines 15-66.  startup records the configuration found and whether the
\* server answered the connection test; redis_up is the reachability of
\* that server from then on.
Init ==
    /\ startup \in [config : Configs, up : BOOLEAN]
    /\ redis_up = startup.up
    /\ redis_client = StartupClient(startup.config, startup.up)
    /\ redis_store = NoEntry
    /\ memory_cache = MemoryEntry(None, None, NoTimestamp)
    /\ now = 0
    /\ call = NoCall
    /\ last_good = [rates |-> None, updatedAt |-> None]
    /\ page = NoPage
    /\ threads = [th \in Threads |-> IdleThread]
    /\ snapshots = {<<None, None>>}

\* the wall clock advances
Tick ==
    /\ now + TickStep <= MaxTime
    /\ now' = now + TickStep
    /\ call' = [NoCall EXCEPT !.at = call.at, !.out = call.out]
    /\ UNCHANGED <<startup, redis_client, redis_up, redis_store, memory_cache, last_good, page,
                 threads, snapshots>>

\* the cache server becomes unreachable
RedisDown ==
    /\ redis_up
    /\ redis_up' = FALSE
    /\ call' = NoCall
    /\ UNCHANGED <<startup, redis_client, redis_store, memory_cache, now, last_good, page,
                 threads, snapshots>>

\* the cache server becomes reachable again
RedisUp ==
    /\ ~redis_up
    /\ redis_up' = TRUE
    /\ call' = NoCall
    /\ UNCHANGED <<startup, redis_client, redis_store, memory_cache, now, last_good, page,
                 threads, snapshots>>

\* another process sharing the cache writes the key
ExternalWrite ==
    /\ redis_up
    /\ \E text \in ForeignTexts(now) :
          redis_store' = [data |-> text, expires |-> now + CACHE_EXPIRATION]
    /\ call' = NoCall
    /\ UNCHANGED <<startup, redis_client, redis_up, memory_cache, now, last_good, page,
                 threads, snapshots>>

\* the upstream outcomes a call can meet: any of Responses when the call
\* gets as far as requests.get, none when an earlier tier returns
NoResponse == Response("none", 0, NoText)

UpstreamOutcomes(client, up, store, mem, t) ==
    IF get_rates(client, up, store, mem, t, NoResponse).upstream_called
    THEN Responses
    ELSE {NoResponse}

\* the effect of one call of get_rates made by a request handler at the
\* current state, which met upstream outcome resp and ended as out
Resolve(resp, out) ==
    /\ memory_cache' = out.memory_cache
    /\ redis_store' = out.redis_store
    /\ call' = [at |-> now,
                read |-> ReadClass(redis_client, redis_up, redis_store, now),
                entry |-> redis_store.data,
                stored |-> redis_store,
                pre |-> memory_cache,
                resp |-> resp,
                out |-> Observed(out),
                \* what the call before this one returned
                prev |-> [source |-> call.out.source, wrote |-> call.out.wrote,
                          at |-> call.at, rates |-> call.out.rates,
                          updated_at |-> call.out.updated_at]]
    /\ last_good' = IF out.source \in {"redis", "upstream"}
                    THEN [rates |-> out.rates, updatedAt |-> out.updated_at]
                    ELSE last_good
    /\ UNCHANGED <<startup, redis_client, redis_up, now, threads, snapshots>>

\* GET /api/rates (lines 166-173): get_rates, then jsonify of what it returned
api_rates ==
    \E resp \in UpstreamOutcomes(redis_client, redis_up, redis_store, memory_cache, now) :
        \E out \in {get_rates(redis_client, redis_up, redis_store, memory_cache, now, resp)} :
            /\ Resolve(resp, out)
            /\ page' = page

\* GET / (lines 148-164): get_rates, then the projection of its rates
index ==
    \E resp \in IndexResponses :
        \E out \in {get_rates(redis_client, redis_up, redis_store, memory_cache, now, resp)} :
            /\ Resolve(resp, out)
            /\ page' = IndexPage(out)

Next == Tick \/ RedisDown \/ RedisUp \/ ExternalWrite \/ api_rates

Spec == Init /\ [][Next]_vars

\* get_rates executed by concurrent threads, one step per access to the
\* shared memory cache or external cache.  Between two accesses of one
\* thread the other thread may run.

\* lines 70-71: a request enters get_rates
Begin ==
    \E th \in Threads :
        /\ threads[th].pc \in {"idle", "done"}
        /\ threads' = [threads EXCEPT ![th] =
                          [IdleThread EXCEPT !.pc = "l74", !.store = threads[th].store]]
        /\ UNCHANGED <<startup, redis_client, redis_up, redis_store, memory_cache, now,
                       call, last_good, page, snapshots>>

\* lines 74-81 and 87-90: the read of the external cache
ReadRedis ==
    \E th \in Threads :
        LET t1 == Tier1(redis_client, redis_up, redis_store, now)
        IN  /\ threads[th].pc = "l74"
            /\ threads' = [threads EXCEPT ![th].rates = t1.rates,
                                          ![th].updated_at = t1.updated_at,
                                          ![th].pc = IF t1.returned THEN "l83" ELSE "l94"]
            /\ snapshots' = IF t1.returned
                            THEN snapshots \cup {<<t1.rates, t1.updated_at>>}
                            ELSE snapshots
            /\ UNCHANGED <<startup, redis_client, redis_up, redis_store, memory_cache, now,
                           call, last_good, page>>

\* lines 94-96: the test of the memory cache
CheckMemory ==
    \E th \in Threads :
        /\ threads[th].pc = "l94"
        /\ threads' = [threads EXCEPT ![th].pc =
                          IF MemoryFresh(memory_cache, now) THEN "l98" ELSE "l103"]
        /\ UNCHANGED <<startup, redis_client, redis_up, redis_store, memory_cache, now,
                       call, last_good, page, snapshots>>

\* the responses of the upstream API to concurrent requests
ConcResponses ==
    {Response("ConnectionError", 0, NoText), Response("response", 429, Garbage),
     Response("response", 200, Text("object", {"rates"}, JObject("R1"), JNull)),
     Response("response", 200, Text("object", {"rates"}, JObject("R2"), JNull))}

\* lines 103-108 and the choice of the except clause (133, 140)
Fetch ==
    \E th \in Threads, resp \in ConcResponses :
        LET t3 == Tier3Try(redis_client, redis_up, redis_store, memory_cache, now, resp)
            h == IF t3.exc = NoExc THEN "none"
                 ELSE Tier3Handlers[HandlerOf(t3.exc, Tier3Handlers)]
        IN  /\ threads[th].pc = "l103"
            /\ threads' = [threads EXCEPT
                  ![th].rates = IF t3.assigned THEN t3.rates ELSE @,
                  ![th].updated_at = IF t3.assigned THEN t3.updated_at ELSE @,
                  ![th].status = resp.status,
                  ![th].pc = CASE h = "none" -> IF redis_client THEN "l118" ELSE "l129"
                               [] h = "HTTPError" -> "l134"
                               [] OTHER -> "l143"]
            /\ snapshots' = IF t3.exc = NoExc
                            THEN snapshots \cup {<<t3.rates, t3.updated_at>>}
                            ELSE snapshots
            /\ UNCHANGED <<startup, redis_client, redis_up, redis_store, memory_cache, now,
                           call, last_good, page>>

\* lines 117-126: the write-through to the external cache
Setex ==
    \E th \in Threads :
        LET cache_data == [rates |-> threads[th].rates, updatedAt |-> threads[th].updated_at]
            w == redis_setex(redis_up, redis_store, now, CACHE_EXPIRATION,
                             json_dumps(cache_data))
        IN  /\ threads[th].pc = "l118"
            /\ w.exc # NoExc => Caught(w.exc, SetexHandlers)
            /\ redis_store' = IF w.exc = NoExc THEN w.store ELSE redis_store
            /\ threads' = [threads EXCEPT ![th].pc = "l129"]
            /\ UNCHANGED <<startup, redis_client, redis_up, memory_cache, now,
                           call, last_good, page, snapshots>>

\* lines 83 and 129: memory_cache['rates'] = rates
StoreRates ==
    \E th \in Threads :
        /\ threads[th].pc \in {"l83", "l129"}
        /\ memory_cache' = [memory_cache EXCEPT !.rates = threads[th].rates]
        /\ threads' = [threads EXCEPT
              ![th].store = [NoStore EXCEPT !.rates = threads[th].rates],
              ![th].pc = "store_updatedAt"]
        /\ UNCHANGED <<startup, redis_client, redis_up, redis_store, now,
                       call, last_good, page, snapshots>>

\* lines 84 and 130: memory_cache['updatedAt'] = updated_at
StoreUpdatedAt ==
    \E th \in Threads :
        /\ threads[th].pc = "store_updatedAt"
        /\ memory_cache' = [memory_cache EXCEPT !.updatedAt = threads[th].updated_at]
        /\ threads' = [threads EXCEPT
              ![th].store.updatedAt = threads[th].updated_at,
              ![th].pc = "store_timestamp"]
        /\ UNCHANGED <<startup, redis_client, redis_up, redis_store, now,
                       call, last_good, page, snapshots>>

\* lines 85 and 131: memory_cache['timestamp'] = datetime.now()
StoreTimestamp ==
    \E th \in Threads :
        /\ threads[th].pc = "store_timestamp"
        /\ memory_cache' = [memory_cache EXCEPT !.timestamp = now]
        /\ threads' = [threads EXCEPT
              ![th].store.timestamp = now,
              ![th].store.complete = TRUE,
              ![th].pc = "return_locals"]
        /\ UNCHANGED <<startup, redis_client, redis_up, redis_store, now,
                       call, last_good, page, snapshots>>

\* lines 134-137 and 143: the test that decides the fallback
CheckFallback ==
    \E th \in Threads :
        /\ threads[th].pc \in {"l134", "l143"}
        /\ threads' = [threads EXCEPT ![th].pc =
              IF threads[th].pc = "l134"
              THEN IF HTTPErrorFallsBack(threads[th].status, memory_cache)
                   THEN "l98" ELSE "return_locals"
              ELSE IF ExceptionFallsBack(memory_cache) THEN "l98" ELSE "return_locals"]
        /\ UNCHANGED <<startup, redis_client, redis_up, redis_store, memory_cache, now,
                       call, last_good, page, snapshots>>

\* lines 98, 138 and 144, first element: the read of memory_cache['rates']
ReadRates ==
    \E th \in Threads :
        /\ threads[th].pc = "l98"
        /\ threads' = [threads EXCEPT ![th].ret.rates = memory_cache.rates,
                                      ![th].pc = "read_updatedAt"]
        /\ UNCHANGED <<startup, redis_client, redis_up, redis_store, memory_cache, now,
                       call, last_good, page, snapshots>>

\* lines 98, 138 and 144, second element: the read of
\* memory_cache['updatedAt'], and the return of the tuple
ReadUpdatedAt ==
    \E th \in Threads :
        /\ threads[th].pc = "read_updatedAt"
        /\ threads' = [threads EXCEPT
              ![th] = [IdleThread EXCEPT
                          !.pc = "done",
                          !.ret = [rates |-> threads[th].ret.rates,
                                   updated_at |-> memory_cache.updatedAt],
                          !.store = threads[th].store]]
        /\ UNCHANGED <<startup, redis_client, redis_up, redis_store, memory_cache, now,
                       call, last_good, page, snapshots>>

\* lines 86 and 146: return rates, updated_at
ReturnLocals ==
    \E th \in Threads :
        /\ threads[th].pc = "return_locals"
        /\ threads' = [threads EXCEPT
              ![th] = [IdleThread EXCEPT
                          !.pc = "done",
                          !.ret = [rates |-> threads[th].rates,
                                   updated_at |-> threads[th].updated_at],
                          !.store = threads[th].store]]
        /\ UNCHANGED <<startup, redis_client, redis_up, redis_store, memory_cache, now,
                       call, last_good, page, snapshots>>

\* a second passes
Moment ==
    /\ now < MaxMoments
    /\ now' = now + 1
    /\ UNCHANGED <<startup, redis_client, redis_up, redis_store, memory_cache,
                   call, last_good, page, threads, snapshots>>

NextConc ==
    \/ Begin \/ ReadRedis \/ CheckMemory \/ Fetch \/ Setex
    \/ StoreRates \/ StoreUpdatedAt \/ StoreTimestamp
    \/ CheckFallback \/ ReadRates \/ ReadUpdatedAt \/ ReturnLocals
    \/ Moment

SpecConc == Init /\ [][NextConc]_vars

\* the page handler under every shape of rates, with the cache server
\* staying as it was at startup
NextIndex == Tick \/ ExternalWrite \/ index

SpecIndex == Init /\ [][NextIndex]_vars

TypeOK ==
    /\ redis_client \in BOOLEAN
    /\ redis_up \in BOOLEAN
    /\ now \in 0..MaxTime
    /\ memory_cache.timestamp \in {NoTimestamp} \cup 0..MaxTime

----------------------------------------------------------------------------
(* Vocabulary of the properties *)

\* a get_rates call has just returned
Called == call.read # "none"

Ret == <<call.out.rates, call.out.updated_at>>

\* the (rates, updatedAt) a memory cache entry holds
Pair(mem) == <<mem.rates, mem.updatedAt>>

\* the (rates, updatedAt) a serialized entry stands for
EntryPair(text) ==
    <<IF text.rates.j = "null" THEN None ELSE text.rates.of,
      IF text.updatedAt.j = "null" THEN None ELSE text.updatedAt.of>>

\* something other than None is stored as the memory cache's rates
MemoryHolds(mem) == mem.rates # None

Age(mem, t) == t - mem.timestamp

UpstreamCalled == Called /\ call.out.upstream_called

\* the upstream answered 200 with a JSON object that has a 'rates' field
ValidResponse(resp) ==
    /\ resp.kind = "response" /\ resp.status = 200
    /\ resp.body.form = "object" /\ "rates" \in resp.body.keys

\* the fetch failed with HTTP 429
Failed429(resp) == resp.kind = "response" /\ resp.status = 429

\* the fetch failed otherwise: timeout, connection error, another error
\* status, or a body that is not a JSON object with a 'rates' field
FailedOther(resp) ==
    \/ resp.kind \in {"Timeout", "ConnectionError"}
    \/ resp.kind = "response" /\ resp.status >= 400 /\ resp.status # 429
    \/ resp.kind = "response" /\ resp.status = 200 /\ ~ValidResponse(resp)

----------------------------------------------------------------------------
(* C1: when the client is available and the key holds a valid serialized   *)
(* {rates, updatedAt} entry, get_rates returns exactly that entry's pair,  *)
(* makes no upstream call, and leaves the memory cache holding the same    *)
(* pair with the current time as timestamp.                                *)

Th_C1 ==
    (Called /\ call.read = "hit") =>
        /\ call.out.escaped = NoExc
        /\ Ret = EntryPair(call.entry)
        /\ ~call.out.upstream_called
        /\ memory_cache = MemoryEntry(Ret[1], Ret[2], call.at)

\* a hit on an entry with non-empty rates, over a memory cache that held
\* something else
Wit_C1 ==
    /\ Called /\ call.read = "hit"
    /\ Truthy(call.out.rates)
    /\ Pair(call.pre) # Ret
    /\ call.pre.timestamp # NoTimestamp /\ call.pre.timestamp < call.at

----------------------------------------------------------------------------
(* C2 as stated: when the external cache is unavailable, errors or has no  *)
(* entry, and the memory cache holds an entry stored less than 600 seconds *)
(* ago, get_rates returns the memory cache's pair and makes no upstream    *)
(* call, for every entry the memory cache can hold.                        *)

CE_C2 ==
    (/\ Called /\ call.read \in {"unavailable", "error", "miss"}
     /\ MemoryHolds(call.pre)
     /\ Age(call.pre, call.at) < 600) =>
        /\ Ret = Pair(call.pre)
        /\ ~call.out.upstream_called

(* C2 amended: the same, for a memory cache entry whose rates is not empty *)
(* (neither None nor an empty mapping).                                    *)

Th_C2 ==
    (/\ Called /\ call.read \in {"unavailable", "error", "miss"}
     /\ Truthy(call.pre.rates)
     /\ Age(call.pre, call.at) < 600) =>
        /\ call.out.escaped = NoExc
        /\ Ret = Pair(call.pre)
        /\ ~call.out.upstream_called
        /\ memory_cache = call.pre

\* served from a memory cache entry older than the external cache's
\* expiration but younger than 600 seconds
Wit_C2 ==
    /\ Called /\ call.read \in {"unavailable", "error", "miss"}
    /\ Truthy(call.pre.rates)
    /\ Age(call.pre, call.at) >= CACHE_EXPIRATION
    /\ Age(call.pre, call.at) < 600
    /\ Ret = Pair(call.pre)

----------------------------------------------------------------------------
(* C3: when the upstream fetch fails for a reason other than HTTP 429 and  *)
(* the memory cache holds a stored value of any age, get_rates returns     *)
(* that memory entry's pair and not (None, None).                          *)

CE_C3 ==
    (/\ UpstreamCalled /\ FailedOther(call.resp)
     /\ Truthy(call.pre.rates)) =>
        /\ Ret = Pair(call.pre)
        /\ Ret # <<None, None>>

----------------------------------------------------------------------------
(* C4 as stated: when the external cache gives no hit, the memory cache    *)
(* entry is 600 seconds old or older and the upstream answers HTTP 429,    *)
(* get_rates returns the stale memory entry's pair, never (None, None).    *)

CE_C4 ==
    (/\ Called /\ call.read # "hit"
     /\ MemoryHolds(call.pre)
     /\ Age(call.pre, call.at) >= 600
     /\ call.out.upstream_called /\ Failed429(call.resp)) =>
        /\ Ret = Pair(call.pre)
        /\ Ret # <<None, None>>

(* C4 amended: the same, for a stale memory cache entry whose rates is not *)
(* empty (neither None nor an empty mapping).                              *)

Th_C4 ==
    (/\ Called /\ call.read # "hit"
     /\ Truthy(call.pre.rates)
     /\ Age(call.pre, call.at) >= 600
     /\ Failed429(call.resp)) =>
        /\ call.out.upstream_called
        /\ call.out.escaped = NoExc
        /\ Ret = Pair(call.pre)
        /\ Ret # <<None, None>>
        /\ memory_cache = call.pre

Wit_C4 ==
    /\ Called /\ call.read # "hit"
    /\ Truthy(call.pre.rates)
    /\ Age(call.pre, call.at) >= 600
    /\ call.out.upstream_called /\ Failed429(call.resp)
    /\ call.out.source = "stale"

----------------------------------------------------------------------------
(* C5: when the external cache is unavailable, empty, erroring or holds an *)
(* unreadable entry, the memory cache is empty and the upstream fetch      *)
(* fails, get_rates returns exactly (None, None).                          *)

CE_C5 ==
    (/\ Called /\ call.read \in {"unavailable", "miss", "error", "unreadable"}
     /\ ~MemoryHolds(call.pre)
     /\ call.out.upstream_called
     /\ (Failed429(call.resp) \/ FailedOther(call.resp))) =>
        Ret = <<None, None>>

----------------------------------------------------------------------------
(* C6 as stated: whenever get_rates reaches the upstream tier and the      *)
(* upstream returns a valid response, get_rates returns the response's     *)
(* rates with a non-null updatedAt, and the same pair is stored in the     *)
(* memory cache and written to the external cache under the key with a     *)
(* 300-second expiration.                                                  *)

ReturnsFetched ==
    /\ call.out.escaped = NoExc
    /\ call.out.rates = EntryPair(call.resp.body)[1]
    /\ call.out.updated_at # None
    /\ Pair(memory_cache) = Ret

ExternalHolds(pair, t) ==
    /\ redis_store.data.form = "object"
    /\ redis_store.data.keys = {"rates", "updatedAt"}
    /\ EntryPair(redis_store.data) = pair
    /\ redis_store.expires = t + 300

CE_C6 ==
    (UpstreamCalled /\ ValidResponse(call.resp)) =>
        /\ ReturnsFetched
        /\ ExternalHolds(Ret, call.at)

(* C6 amended: the pair is returned and stored in the memory cache; it is  *)
(* written to the external cache when the client exists and the write does *)
(* not fail (the server is reachable).                                     *)

Th_C6 ==
    (UpstreamCalled /\ ValidResponse(call.resp)) =>
        /\ ReturnsFetched
        /\ (redis_client /\ redis_up) => ExternalHolds(Ret, call.at)

Wit_C6 ==
    /\ UpstreamCalled /\ ValidResponse(call.resp)
    /\ Truthy(call.out.rates)
    /\ redis_client /\ redis_up
    /\ call.at > 0
    /\ ExternalHolds(Ret, call.at)

----------------------------------------------------------------------------
(* C7: for every combination of external-cache outcome, memory-cache state *)
(* and upstream outcome, get_rates finishes by returning a value; no       *)
(* failure of a tier ends the call in an error state.                      *)

Th_C7 == Called => call.out.escaped = NoExc /\ call.out.source # "raised"

\* a call in which both the external-cache read and the upstream fetch
\* raised
Wit_C7 ==
    /\ Called /\ call.read \in {"error", "unreadable"}
    /\ call.out.upstream_called
    /\ call.resp.kind \in {"Timeout", "ConnectionError"}
    /\ call.out.escaped = NoExc

----------------------------------------------------------------------------
(* C8: after a call that fetches from upstream and writes through to the   *)
(* external cache, the next call, made before the 300-second expiration    *)
(* with nothing else touching the cache, reads that entry back and returns *)
(* the rates and updatedAt the first call returned.                        *)

Th_C8 ==
    (/\ Called /\ call.prev.source = "upstream" /\ call.prev.wrote
     /\ call.at < call.prev.at + CACHE_EXPIRATION) =>
        /\ call.out.source = "redis"
        /\ Ret = <<call.prev.rates, call.prev.updated_at>>

Wit_C8 ==
    /\ Called /\ call.prev.source = "upstream" /\ call.prev.wrote
    /\ call.prev.at < call.at /\ call.at < call.prev.at + CACHE_EXPIRATION
    /\ call.out.source = "redis"
    /\ Truthy(call.out.rates)

\* the same round trip for a snapshot whose rates is null
Wit_C8_null ==
    /\ Called /\ call.prev.source = "upstream" /\ call.prev.wrote
    /\ call.prev.rates = None

----------------------------------------------------------------------------
(* C9 as stated: after any sequence of calls, whenever the memory cache is *)
(* non-empty its pair is the snapshot of the most recent successful        *)
(* resolution, and rates, updatedAt and timestamp are either all unset or  *)
(* all set.                                                                *)

ReflectsLastGood == MemoryHolds(memory_cache) => Pair(memory_cache) = Pair(last_good)

CE_C9 ==
    /\ ReflectsLastGood
    /\ \/ /\ memory_cache.rates = None
          /\ memory_cache.updatedAt = None
          /\ memory_cache.timestamp = NoTimestamp
       \/ /\ memory_cache.rates # None
          /\ memory_cache.updatedAt # None
          /\ memory_cache.timestamp # NoTimestamp

(* C9 amended: the memory cache's pair is the snapshot of the most recent  *)
(* successful resolution; updatedAt and timestamp are both unset or both   *)
(* set, and both are set whenever rates is set (rates can be None beside a *)
(* set updatedAt and timestamp, after a snapshot whose rates is null).     *)

Th_C9 ==
    /\ ReflectsLastGood
    /\ (memory_cache.updatedAt = None) <=> (memory_cache.timestamp = NoTimestamp)
    /\ memory_cache.rates # None => memory_cache.timestamp # NoTimestamp

\* the memory cache was overwritten by a later resolution and then served
Wit_C9 ==
    /\ Called /\ call.out.source \in {"redis", "upstream"}
    /\ Truthy(memory_cache.rates)
    /\ Truthy(call.pre.rates)
    /\ Pair(call.pre) # Pair(memory_cache)

----------------------------------------------------------------------------
(* C10: an external-cache read that fails (connection error, an entry that *)
(* cannot be deserialized or lacks a field) is treated exactly as a miss:  *)
(* for the same memory cache and upstream outcome get_rates returns the    *)
(* same pair and leaves the same memory cache as when the key is absent.   *)

\* the outcome of the same call had the key been absent
AsMiss == get_rates(TRUE, TRUE, NoEntry, call.pre, call.at, call.resp)

CE_C10 ==
    (Called /\ call.read \in {"error", "unreadable"}) =>
        /\ call.out.rates = AsMiss.rates
        /\ call.out.updated_at = AsMiss.updated_at
        /\ memory_cache = AsMiss.memory_cache

----------------------------------------------------------------------------
(* C11 as stated: when neither a URL nor a host is configured, no          *)
(* get_rates call reads from or writes to an external cache.               *)

CE_C11 == (startup.config = "none" /\ Called) => call.out.ops = {}

(* C11 amended: when neither is configured the client is built for the     *)
(* server at localhost:6379; get_rates calls leave the external cache      *)
(* alone exactly when that server did not answer the connection test at    *)
(* startup, and read it when it did.                                       *)

Th_C11 ==
    (startup.config = "none" /\ Called) =>
        /\ call.out.ops = {} <=> ~startup.up
        /\ startup.up => "get" \in call.out.ops

\* no configuration, no answer at startup, the server reachable later: a
\* call that fetched from upstream and wrote nothing
Wit_C11 ==
    /\ startup.config = "none" /\ ~startup.up /\ redis_up
    /\ Called /\ call.out.source = "upstream" /\ Truthy(call.out.rates)
    /\ call.out.ops = {}

----------------------------------------------------------------------------
(* C14 as stated: once the memory cache holds a non-empty rates value, it  *)
(* holds one after every later call, whatever the tiers answer.            *)

CE_C14 == [][Truthy(memory_cache.rates) => Truthy(memory_cache'.rates)]_vars

(* C14 amended: a non-empty rates value in the memory cache is replaced by *)
(* an empty or null one only by a call that resolves a snapshot (an        *)
(* external-cache hit or an upstream 200) whose rates field is empty or    *)
(* null, which is stored like any other; no failure of a tier clears it.   *)

Th_C14 ==
    [][(Truthy(memory_cache.rates) /\ ~Truthy(memory_cache'.rates)) =>
          /\ call'.read # "none"
          /\ call'.out.source \in {"redis", "upstream"}
          /\ ~Truthy(call'.out.rates)
          /\ Pair(memory_cache') = <<call'.out.rates, call'.out.updated_at>>]_vars

\* a non-empty memory cache that outlived a failed fetch which returned
\* nothing
Wit_C14 ==
    /\ Called /\ Truthy(call.pre.rates)
    /\ call.out.upstream_called /\ FailedOther(call.resp)
    /\ call.out.rates = None
    /\ Truthy(memory_cache.rates)

----------------------------------------------------------------------------
(* C15: a call served from the fresh memory cache, or whose upstream fetch *)
(* fails, leaves the three memory cache fields unchanged and writes        *)
(* nothing to the external cache; a stale fallback does not refresh the    *)
(* timestamp, so the next call without an external-cache hit goes to the   *)
(* upstream again.                                                         *)

FetchFailed ==
    call.out.upstream_called /\ (Failed429(call.resp) \/ FailedOther(call.resp))

Th_C15 ==
    /\ (Called /\ (call.out.source = "memory" \/ FetchFailed)) =>
          /\ memory_cache = call.pre
          /\ "setex" \notin call.out.ops
          /\ redis_store = call.stored
    /\ (Called /\ call.prev.source = "stale" /\ call.read # "hit") =>
          call.out.upstream_called

\* two stale fallbacks in a row, the second at a later time
Wit_C15 ==
    /\ Called /\ call.prev.source = "stale" /\ call.prev.at < call.at
    /\ call.out.source = "stale"
    /\ memory_cache = call.pre

----------------------------------------------------------------------------
(* C16: when the upstream fetch succeeds but the write-through to the      *)
(* external cache fails, get_rates still stores the fresh snapshot in the  *)
(* memory cache and returns it.                                            *)

Th_C16 ==
    (/\ UpstreamCalled /\ ValidResponse(call.resp)
     /\ redis_client /\ ~redis_up) =>
        /\ call.out.escaped = NoExc
        /\ "setex" \in call.out.ops /\ ~call.out.wrote
        /\ Ret = <<EntryPair(call.resp.body)[1], isoformat(call.at)>>
        /\ memory_cache = MemoryEntry(Ret[1], Ret[2], call.at)
        /\ redis_store = call.stored

\* a stale memory cache replaced by a fetch whose write-through failed
Wit_C16 ==
    /\ UpstreamCalled /\ ValidResponse(call.resp)
    /\ redis_client /\ ~redis_up
    /\ Truthy(call.out.rates) /\ Truthy(call.pre.rates)
    /\ memory_cache # call.pre

----------------------------------------------------------------------------
(* C18: get_rates returns either (None, None) or a pair whose rates and    *)
(* updatedAt are both non-null.  Stated for the calls in which no tier     *)
(* supplies a snapshot whose rates field is null.                          *)

NullSupplied ==
    \/ call.out.source = "redis" /\ call.entry.rates = JNull
    \/ call.out.source = "upstream" /\ call.resp.body.rates = JNull

CE_C18 ==
    (Called /\ ~NullSupplied) =>
        \/ Ret = <<None, None>>
        \/ call.out.rates # None /\ call.out.updated_at # None

----------------------------------------------------------------------------
(* C19: whenever get_rates returns a snapshot in a call in which the       *)
(* upstream did not fail (external-cache hit, fresh memory hit or upstream *)
(* fetch), the snapshot's updatedAt is less than 900 seconds in the past.  *)

\* datetime.fromisoformat: the clock reading an updatedAt string stands for
ParseIso(str) == CHOOSE t \in 0..MaxTime : isoformat(t) = str

SnapshotAge == call.at - ParseIso(call.out.updated_at)

Th_C19 ==
    (/\ Called /\ call.out.source \in {"redis", "memory", "upstream"}
     /\ call.out.updated_at # None) =>
        SnapshotAge < 900

\* a snapshot older than the memory window, served from the memory cache
\* after an external-cache hit had reset its timestamp
Wit_C19 ==
    /\ Called /\ call.out.source = "memory"
    /\ SnapshotAge >= 600
    /\ Age(call.pre, call.at) < SnapshotAge

----------------------------------------------------------------------------
(* C20: availability of the external cache is decided once, at startup: if *)
(* the connection test fails no later call reads or writes the external    *)
(* cache, even when it becomes reachable again; if it succeeds every call  *)
(* begins by reading it.                                                   *)

Th_C20 ==
    /\ redis_client = startup.up
    /\ (Called /\ ~startup.up) => call.out.ops = {} /\ redis_store = call.stored
    /\ (Called /\ startup.up) => "get" \in call.out.ops

\* the test failed, the server is reachable again and holds a live entry,
\* and a call went to the upstream without touching it
Wit_C20 ==
    /\ ~startup.up /\ redis_up
    /\ Called /\ call.at < call.stored.expires
    /\ call.stored.data.form = "object"
    /\ call.out.upstream_called
    /\ call.out.ops = {}

----------------------------------------------------------------------------
(* C17: for GET /, prices is either the full triple {brl, usd, eur} taken  *)
(* from each currency's nested 'value' field, or None as a whole: when     *)
(* get_rates returns no rates, or one of the three currencies or its       *)
(* 'value' field is missing or malformed, prices is None and the request   *)
(* still completes with the updatedAt that get_rates returned.             *)

\* the rates value has the three currencies, each a mapping with 'value'
HasValue(rates, code) ==
    /\ rates.type = "dict" /\ code \in DOMAIN rates.items
    /\ rates.items[code].type = "dict"
    /\ "value" \in DOMAIN rates.items[code].items

Projectable(name) ==
    /\ name \notin {None, EmptyDict}
    /\ \A code \in {"brl", "usd", "eur"} : HasValue(Content(name), code)

Wit_C17_full ==
    /\ page.done /\ Called /\ ~page.prices.none
    /\ page.prices.usd = PyNum(97000)

----------------------------------------------------------------------------
(* C12: with two or more get_rates calls running concurrently against the  *)
(* shared memory cache, every (rates, updatedAt) pair a call returns       *)
(* belongs to one single snapshot: no call returns the rates of one        *)
(* snapshot together with the updatedAt of another.                        *)

Finished(th) == threads[th].pc = "done"

Returned(th) == <<threads[th].ret.rates, threads[th].ret.updated_at>>

CE_C12 == \A th \in Threads : Finished(th) => Returned(th) \in snapshots

(* C13: when concurrent get_rates calls that each write the memory cache   *)
(* have all finished, the memory cache holds the complete snapshot of one  *)
(* of the writers: its rates, updatedAt and timestamp all come from the    *)
(* same writer's store.                                                    *)

Quiescent == \A th \in Threads : threads[th].pc \in {"idle", "done"}

StoreOf(th) ==
    MemoryEntry(threads[th].store.rates, threads[th].store.updatedAt,
                threads[th].store.timestamp)

CE_C13 ==
    (Quiescent /\ \A th \in Threads : threads[th].store.complete) =>
        \E th \in Threads : memory_cache = StoreOf(th)

====
